---- MODULE Spec2Model ----
(***************************************************************************)
(* Model of src/main.py: the pygame media-player shell.                    *)
(*                                                                         *)
(* Time is counted in whole seconds.  The program compares playback        *)
(* positions against "total + 0.3"; with whole-second values that          *)
(* comparison is done exactly by cross-multiplying by ten.                 *)
(*                                                                         *)
(* The render thread (main_loop) and the Bluetooth worker thread           *)
(* (bt_scan_background) share the dictionary `state`.  The audio engine    *)
(* (pygame.mixer.music) is the record `music`.                             *)
(***************************************************************************)
EXTENDS Integers, Sequences, FiniteSets, TLC

VARIABLES
    state,      \* the global dict `state` (main.py:40-54)
    music,      \* pygame.mixer.music: [mode, pos]
    now,        \* seconds since program start (time.monotonic())
    running,    \* main_loop's local `running`
    rpc,        \* render thread position: "loop", or inside screen_wifi
                \* ("wifi_scan" | "wifi_store" | "wifi_clear"), or inside
                \* screen_bluetooth ("bt_err" | "bt_list" | "bt_items"),
                \* or "exited" once sys.exit() has ended the process
    bt_pc,      \* worker position: "discover"|"publish1"|"publish2"|"stamp"|"sleep"
    bt_res,     \* worker local: the outcome of the discovery in progress
    bt_pub,     \* history: the (list, error) pair of the last completed cycle
    obs,        \* history: what screen_bluetooth read in the current tick
    fx,         \* history: what the last step did
    wifi_scan_at,   \* history: time of the last executed scan_wifi(), -1 if none
    wifi_res    \* render thread local: the outcome of the scan_wifi() in progress

vars == <<state, music, now, running, rpc, bt_pc, bt_res, bt_pub, obs, fx,
          wifi_scan_at, wifi_res>>

----------------------------------------------------------------------------
(* Program constants *)

WIDTH == 328
HEIGHT == 360
NAV_H == 48
WIFI_RESCAN == 6
LIST_X == 20
LIST_H == 40
LIST_STEP == 50
LIST_TOP == 40

(* Bounds of the model: the clock stops advancing at MaxTime seconds; a     *)
(* pause considered by the claims lasts at most MaxPause seconds.           *)
MaxTime == 6
MaxPause == 2

(* The longest catalogue considered for the song list.                      *)
MaxSongs == 7

(* The clock's bound where both threads run beside it.                      *)
MaxIdleTime == 2

None == "None"

Max(a, b) == IF a >= b THEN a ELSE b
Abs(a) == IF a >= 0 THEN a ELSE -a

----------------------------------------------------------------------------
(* The song catalogue (load_songs_from_folder): only `length` matters here. *)

Song(len) == [length |-> len]

Catalogs ==
    { <<>>,
      <<Song(3)>>,
      <<Song(2), Song(1)>>,
      <<Song(2), Song(0), Song(1)>> }

InitState(songs) ==
    [ screen          |-> "home",
      wifi_list       |-> <<>>,
      bt_list         |-> <<>>,
      songs           |-> songs,
      current_index   |-> 0,
      playing         |-> FALSE,
      paused          |-> FALSE,
      song_start_time |-> 0,
      song_length     |-> 0,
      last_scan_wifi  |-> 0,
      last_scan_bt    |-> 0,
      wifi_error      |-> None,
      bt_error        |-> None ]

(* time.time(): wall clock, seconds since 1970; the program starts in 2026. *)
time_time(t) == 1793000000 + t

----------------------------------------------------------------------------
(* pygame.mixer.music *)

LoadOutcomes == {"ok", "load_fail", "play_fail"}

(* music.load(path); music.play().  A failed load leaves the engine as it   *)
(* was; a load that succeeds replaces the current music, so a failing       *)
(* play() after it leaves the engine with nothing playing.                  *)
music_load_play(m, o) ==
    CASE o = "ok"        -> [mode |-> "playing", pos |-> 0]
      [] o = "load_fail" -> m
      [] OTHER           -> [mode |-> "none", pos |-> 0]

music_pause(m) == IF m.mode = "playing" THEN [m EXCEPT !.mode = "paused"] ELSE m

music_unpause(m) == IF m.mode = "paused" THEN [m EXCEPT !.mode = "playing"] ELSE m

music_stop(m) == [mode |-> "none", pos |-> 0]

(* get_pos(): milliseconds played, or -1 when no music is playing. *)
music_get_pos(m) == IF m.mode = "none" THEN -1 ELSE m.pos * 1000

----------------------------------------------------------------------------
(* AUDIO CONTROL.  A "world" is what the functions act on: the dict, the    *)
(* audio engine, and a log of what the current handler has done so far.     *)
(* t is the value of time.monotonic() during the call.                      *)

NoLog == [auto |-> "none", ops |-> <<>>]

World(s, m) == [state |-> s, music |-> m, log |-> NoLog]

get_playback_position(s, m, t) ==
    LET pos_ms == music_get_pos(m) IN
    IF pos_ms = -1
    THEN IF s.playing /\ ~s.paused THEN t - s.song_start_time ELSE 0
    ELSE Max(0, pos_ms \div 1000)

(* Variant of play_song that stores the index as it was passed.             *)
play_song_raw_index(w, index, o, t) ==
    IF Len(w.state.songs) = 0 THEN w
    ELSE LET idx  == index % Len(w.state.songs)
             song == w.state.songs[idx + 1]
         IN IF o = "ok"
            THEN [w EXCEPT !.state = [w.state EXCEPT !.current_index = index,
                                                     !.playing = TRUE,
                                                     !.paused = FALSE,
                                                     !.song_start_time = t,
                                                     !.song_length = song.length],
                           !.music = music_load_play(w.music, o)]
            ELSE [w EXCEPT !.music = music_load_play(w.music, o)]

(* Variant of play_song that records the new index before it loads.         *)
play_song_index_first(w, index, o, t) ==
    IF Len(w.state.songs) = 0 THEN w
    ELSE LET idx  == index % Len(w.state.songs)
             song == w.state.songs[idx + 1]
         IN IF o = "ok"
            THEN [w EXCEPT !.state = [w.state EXCEPT !.current_index = idx,
                                                     !.playing = TRUE,
                                                     !.paused = FALSE,
                                                     !.song_start_time = t,
                                                     !.song_length = song.length],
                           !.music = music_load_play(w.music, o)]
            ELSE [w EXCEPT !.state = [w.state EXCEPT !.current_index = idx],
                           !.music = music_load_play(w.music, o)]

(* Variant of play_song that marks playback as started before it looks at   *)
(* the catalogue.                                                           *)
play_song_flag_first(w, index, o, t) ==
    IF Len(w.state.songs) = 0 THEN [w EXCEPT !.state.playing = TRUE]
    ELSE LET idx  == index % Len(w.state.songs)
             song == w.state.songs[idx + 1]
         IN IF o = "ok"
            THEN [w EXCEPT !.state = [w.state EXCEPT !.current_index = idx,
                                                     !.playing = TRUE,
                                                     !.paused = FALSE,
                                                     !.song_start_time = t,
                                                     !.song_length = song.length],
                           !.music = music_load_play(w.music, o)]
            ELSE [w EXCEPT !.music = music_load_play(w.music, o)]

play_song(w, index, o, t) ==
    IF Len(w.state.songs) = 0 THEN w
    ELSE LET idx  == index % Len(w.state.songs)
             song == w.state.songs[idx + 1]
         IN IF o = "ok"
            THEN [w EXCEPT !.state = [w.state EXCEPT !.current_index = idx,
                                                     !.playing = TRUE,
                                                     !.paused = FALSE,
                                                     !.song_start_time = t,
                                                     !.song_length = song.length],
                           !.music = music_load_play(w.music, o)]
            ELSE [w EXCEPT !.music = music_load_play(w.music, o)]

(* Variant of toggle_play_pause whose resume adds the position to the       *)
(* clock instead of subtracting it.                                         *)
toggle_play_pause_adds_position(w, o, t) ==
    IF ~w.state.playing
    THEN play_song(w, w.state.current_index, o, t)
    ELSE IF w.state.paused
         THEN LET m1 == music_unpause(w.music)
                  s1 == [w.state EXCEPT !.paused = FALSE]
              IN [w EXCEPT !.state = [s1 EXCEPT !.song_start_time =
                                          t + get_playback_position(s1, m1, t)],
                           !.music = m1]
         ELSE [w EXCEPT !.state = [w.state EXCEPT !.paused = TRUE],
                        !.music = music_pause(w.music)]

(* Variant of toggle_play_pause whose resume leaves the paused flag set.    *)
toggle_play_pause_keeps_flag(w, o, t) ==
    IF ~w.state.playing
    THEN play_song(w, w.state.current_index, o, t)
    ELSE IF w.state.paused
         THEN [w EXCEPT !.music = music_unpause(w.music)]
         ELSE [w EXCEPT !.state = [w.state EXCEPT !.paused = TRUE],
                        !.music = music_pause(w.music)]

toggle_play_pause(w, o, t) ==
    IF ~w.state.playing
    THEN play_song(w, w.state.current_index, o, t)
    ELSE IF w.state.paused
         THEN LET m1 == music_unpause(w.music)
                  s1 == [w.state EXCEPT !.paused = FALSE]
              IN [w EXCEPT !.state = [s1 EXCEPT !.song_start_time =
                                          t - get_playback_position(s1, m1, t)],
                           !.music = m1]
         ELSE [w EXCEPT !.state = [w.state EXCEPT !.paused = TRUE],
                        !.music = music_pause(w.music)]

(* Variant of stop_playback that clears only the playing flag.              *)
stop_playback_keeps_paused(w) ==
    [w EXCEPT !.state = [w.state EXCEPT !.playing = FALSE],
              !.music = music_stop(w.music)]

stop_playback(w) ==
    [w EXCEPT !.state = [w.state EXCEPT !.playing = FALSE, !.paused = FALSE],
              !.music = music_stop(w.music)]

(* Variant of next_song that replays the current index.                     *)
next_song_same_index(w, o, t) ==
    play_song(w, w.state.current_index % Max(1, Len(w.state.songs)), o, t)

next_song(w, o, t) ==
    play_song(w, (w.state.current_index + 1) % Max(1, Len(w.state.songs)), o, t)

(* Variant of prev_song that stops at the first song instead of wrapping.   *)
prev_song_clamped(w, o, t) ==
    play_song(w, Max(0, w.state.current_index - 1), o, t)

prev_song(w, o, t) ==
    play_song(w, (w.state.current_index - 1) % Max(1, Len(w.state.songs)), o, t)

(* The playback state the flags encode. *)
Mode(s) == IF ~s.playing THEN "Stopped" ELSE IF s.paused THEN "Paused" ELSE "Playing"

----------------------------------------------------------------------------
(* Input events (pygame.event.get()) and hit testing (pygame.Rect).         *)

Click(x, y) == [type |-> "MOUSEBUTTONDOWN", pos |-> <<x, y>>]

QuitEvent == [type |-> "QUIT", pos |-> <<0, 0>>]

IsClick(e) == e.type = "MOUSEBUTTONDOWN"

Rect(x, y, w, h) == [x |-> x, y |-> y, w |-> w, h |-> h]

collidepoint(r, p) ==
    /\ r.x <= p[1] /\ p[1] < r.x + r.w
    /\ r.y <= p[2] /\ p[2] < r.y + r.h

(* One representative point per clickable region of every screen.          *)
ClickPoints ==
    { <<50, 350>>,  <<164, 350>>, <<300, 350>>,    \* bottom navigation band
      <<80, 110>>,  <<190, 110>>,                  \* home icons / second list row
      <<164, 60>>,                                 \* first list row
      <<164, 160>>,                                \* third list row
      <<85, 300>>,  <<164, 300>>, <<243, 300>> }   \* player: prev, play/pause, next

(* The events of one loop iteration: none, a quit, or one click.           *)
EventBatches ==
    {<<>>, <<QuitEvent>>} \cup { <<Click(p[1], p[2])>> : p \in ClickPoints }

draw_list_item(y) == Rect(LIST_X, y, WIDTH - 2 * LIST_X, LIST_H)

----------------------------------------------------------------------------
(* main_loop, lines 451-464: quit and the bottom navigation.                *)

nav_event(s, e) ==
    IF IsClick(e) /\ e.pos[2] > HEIGHT - NAV_H
    THEN LET w   == WIDTH \div 3
             idx == e.pos[1] \div w
         IN [s EXCEPT !.screen = IF idx = 0 THEN "home"
                                 ELSE IF idx = 1 THEN "songs" ELSE "settings"]
    ELSE s

RECURSIVE handle_nav(_, _)
handle_nav(s, events) ==
    IF events = <<>> THEN s
    ELSE handle_nav(nav_event(s, Head(events)), Tail(events))

RECURSIVE has_quit(_)
has_quit(events) ==
    IF events = <<>> THEN FALSE
    ELSE Head(events).type = "QUIT" \/ has_quit(Tail(events))

----------------------------------------------------------------------------
(* Screens *)

home_event(s, e) ==
    IF ~IsClick(e) THEN s
    ELSE LET s1 == IF collidepoint(Rect(50, 80, 60, 60), e.pos)
                   THEN [s EXCEPT !.screen = "settings"] ELSE s
         IN IF collidepoint(Rect(160, 80, 60, 60), e.pos)
            THEN [s1 EXCEPT !.screen = "songs"] ELSE s1

RECURSIVE screen_home(_, _)
screen_home(s, events) ==
    IF events = <<>> THEN s
    ELSE screen_home(home_event(s, Head(events)), Tail(events))

settings_event(s, e) ==
    IF ~IsClick(e) THEN s
    ELSE LET s1 == IF collidepoint(Rect(20, 40, WIDTH - 40, 40), e.pos)
                   THEN [s EXCEPT !.screen = "wifi"] ELSE s
         IN IF collidepoint(Rect(20, 100, WIDTH - 40, 40), e.pos)
            THEN [s1 EXCEPT !.screen = "bluetooth"] ELSE s1

RECURSIVE screen_settings(_, _)
screen_settings(s, events) ==
    IF events = <<>> THEN s
    ELSE screen_settings(settings_event(s, Head(events)), Tail(events))

(* scan_wifi(): the outcome of the platform command is an input.  On a      *)
(* failure the function records the error itself and returns [].            *)
WifiLists == { <<>>, <<"net1">>, <<"net1", "net2">> }

(* No scan is in progress. *)
NoScan == [kind |-> "-", nets |-> <<>>]

WifiOutcomes ==
    { [kind |-> "ok", nets |-> l] : l \in WifiLists }
      \cup { [kind |-> k, nets |-> <<>>] : k \in {"not_found", "timeout", "failed"} }

scan_wifi(s, r) ==
    CASE r.kind = "ok"        -> [ret |-> r.nets, state |-> s]
      [] r.kind = "not_found" ->
            [ret |-> <<>>, state |-> [s EXCEPT !.wifi_error = "WiFi tool not found"]]
      [] r.kind = "timeout"   ->
            [ret |-> <<>>, state |-> [s EXCEPT !.wifi_error = "WiFi scan timed out"]]
      [] OTHER                ->
            [ret |-> <<>>, state |-> [s EXCEPT !.wifi_error = "WiFi scan failed"]]

(* Whether this visit of the WiFi screen runs the scan (lines 313-318).     *)
wifi_scans(s, t) ==
    /\ s.wifi_error = None
    /\ time_time(t) - s.last_scan_wifi > WIFI_RESCAN

screen_wifi(s, r, t) ==
    IF wifi_scans(s, t)
    THEN LET res == scan_wifi(s, r)
         IN [res.state EXCEPT !.wifi_list = res.ret, !.wifi_error = None]
    ELSE s

(* screen_songs: for every song row, for every event.                       *)
(* Variant of songs_row that opens the Player without playing the song.     *)
RECURSIVE songs_row_no_play(_, _, _, _, _)
songs_row_no_play(w, i, events, o, t) ==
    IF events = <<>> THEN w
    ELSE LET e  == Head(events)
             r  == draw_list_item(LIST_TOP + i * LIST_STEP)
             w1 == IF IsClick(e) /\ collidepoint(r, e.pos)
                   THEN [w EXCEPT !.state = [w.state EXCEPT !.screen = "player"],
                                  !.log = [w.log EXCEPT !.ops = Append(@, "select")]]
                   ELSE w
         IN songs_row_no_play(w1, i, Tail(events), o, t)

RECURSIVE songs_row(_, _, _, _, _)
songs_row(w, i, events, o, t) ==
    IF events = <<>> THEN w
    ELSE LET e  == Head(events)
             r  == draw_list_item(LIST_TOP + i * LIST_STEP)
             w1 == IF IsClick(e) /\ collidepoint(r, e.pos)
                   THEN LET p == play_song(w, i, o, t)
                        IN [p EXCEPT !.state = [p.state EXCEPT !.screen = "player"],
                                     !.log = [p.log EXCEPT !.ops = Append(@, "select")]]
                   ELSE w
         IN songs_row(w1, i, Tail(events), o, t)

RECURSIVE songs_rows(_, _, _, _, _)
songs_rows(w, i, events, o, t) ==
    IF i >= Len(w.state.songs) THEN w
    ELSE songs_rows(songs_row(w, i, events, o, t), i + 1, events, o, t)

screen_songs(w, events, o, t) ==
    IF Len(w.state.songs) = 0 THEN w ELSE songs_rows(w, 0, events, o, t)

(* The rows a batch of events selects, in the order play_song is called.    *)
RECURSIVE selected_rows(_, _, _)
selected_rows(s, i, events) ==
    IF i >= Len(s.songs) THEN <<>>
    ELSE LET r    == draw_list_item(LIST_TOP + i * LIST_STEP)
             hits == SelectSeq(events, LAMBDA e : IsClick(e) /\ collidepoint(r, e.pos))
         IN [k \in 1..Len(hits) |-> i] \o selected_rows(s, i + 1, events)

(* screen_player, lines 402-410: the progress clamp and auto-advance.       *)
player_total(s) ==
    IF s.song_length # 0 THEN s.song_length
    ELSE s.songs[s.current_index + 1].length

(* Variant of track_ended without the test for a known duration.            *)
track_ended_any_total(s, m, t) ==
    /\ Len(s.songs) > 0
    /\ 10 * get_playback_position(s, m, t) > 10 * player_total(s) + 3

track_ended(s, m, t) ==
    /\ Len(s.songs) > 0
    /\ player_total(s) > 0
    /\ 10 * get_playback_position(s, m, t) > 10 * player_total(s) + 3

(* Variant of player_auto that returns to the song list when the next       *)
(* track cannot be loaded.                                                  *)
player_auto_leaves_on_failure(w, o, t) ==
    IF track_ended(w.state, w.music, t)
    THEN IF o = "ok"
         THEN [next_song(w, o, t) EXCEPT !.log.auto = "loaded"]
         ELSE [next_song(w, o, t) EXCEPT !.log.auto = "failed",
                                         !.state.screen = "songs"]
    ELSE w

player_auto(w, o, t) ==
    IF track_ended(w.state, w.music, t)
    THEN [next_song(w, o, t) EXCEPT !.log.auto = IF o = "ok" THEN "loaded" ELSE "failed"]
    ELSE w

(* screen_player, lines 433-444: the three control areas.                   *)
in_prev(p)   == 60 < p[1] /\ p[1] < 110 /\ 280 < p[2] /\ p[2] < 320
in_toggle(p) == WIDTH \div 2 - 30 < p[1] /\ p[1] < WIDTH \div 2 + 30
                /\ 272 < p[2] /\ p[2] < 328
in_next(p)   == WIDTH - 110 < p[1] /\ p[1] < WIDTH - 60 /\ 280 < p[2] /\ p[2] < 320

player_event(w, e, o, t) ==
    IF ~IsClick(e) THEN w
    ELSE LET w1 == IF in_prev(e.pos)
                   THEN [prev_song(w, o, t) EXCEPT !.log.ops = Append(@, "prev")]
                   ELSE w
             w2 == IF in_toggle(e.pos)
                   THEN [toggle_play_pause(w1, o, t) EXCEPT !.log.ops = Append(@, "toggle")]
                   ELSE w1
         IN IF in_next(e.pos)
            THEN [next_song(w2, o, t) EXCEPT !.log.ops = Append(@, "next")]
            ELSE w2

RECURSIVE player_events(_, _, _, _)
player_events(w, events, o, t) ==
    IF events = <<>> THEN w
    ELSE player_events(player_event(w, Head(events), o, t), Tail(events), o, t)

screen_player(w, events, oa, oc, t) ==
    player_events(player_auto(w, oa, t), events, oc, t)

(* The controls a batch of events operates, in call order.                  *)
RECURSIVE player_ops(_)
player_ops(events) ==
    IF events = <<>> THEN <<>>
    ELSE LET e == Head(events)
         IN (IF IsClick(e) /\ in_prev(e.pos) THEN <<"prev">> ELSE <<>>)
            \o (IF IsClick(e) /\ in_toggle(e.pos) THEN <<"toggle">> ELSE <<>>)
            \o (IF IsClick(e) /\ in_next(e.pos) THEN <<"next">> ELSE <<>>)
            \o player_ops(Tail(events))

----------------------------------------------------------------------------
(* History records *)

Fx(kind) ==
    [kind |-> kind, screen |-> "-", auto |-> "none", ops |-> <<>>, o |-> "-",
     scan |-> "none", gap |-> -1]

(* What screen_bluetooth has read in this iteration: "-" for a field not   *)
(* read; torn when the two values read were never published together.       *)
NoObs == [err_val |-> "-", list_val |-> <<"-">>, cands |-> {}, torn |-> FALSE]

Pair(list, err) == [list |-> list, err |-> err]

(* The pair one worker cycle with discovery result r publishes.             *)
Published(r) ==
    IF r.ok THEN Pair(r.devices, None) ELSE Pair(<<>>, "Bluetooth scan failed")

(* The pairs that are current when the render thread starts reading: the    *)
(* last completed one, and the incoming one while the worker stands         *)
(* between its two writes.                                                  *)
(* The render thread stands inside screen_bluetooth.                        *)
InBtRender == rpc \in {"bt_err", "bt_list", "bt_items"}

Current ==
    {bt_pub} \cup (IF bt_pc = "publish2" THEN {Published(bt_res)} ELSE {})

Init ==
    /\ \E songs \in Catalogs : state = InitState(songs)
    /\ music = [mode |-> "none", pos |-> 0]
    /\ now = 0
    /\ running = TRUE
    /\ rpc = "loop"
    /\ bt_pc = "discover"
    /\ bt_res = [ok |-> TRUE, devices |-> <<>>]
    /\ bt_pub = Pair(<<>>, None)
    /\ obs = NoObs
    /\ fx = Fx("init")
    /\ wifi_scan_at = -1
    /\ wifi_res = NoScan

(* Catalogues long enough for the song list to reach the bottom of the      *)
(* window: row i is drawn at y = 40 + 50 i whatever the window height.      *)
LongCatalogs == { [k \in 1 .. n |-> Song(1)] : n \in {0, 3, MaxSongs} }

InitLong ==
    /\ \E songs \in LongCatalogs : state = InitState(songs)
    /\ music = [mode |-> "none", pos |-> 0]
    /\ now = 0
    /\ running = TRUE
    /\ rpc = "loop"
    /\ bt_pc = "discover"
    /\ bt_res = [ok |-> TRUE, devices |-> <<>>]
    /\ bt_pub = Pair(<<>>, None)
    /\ obs = NoObs
    /\ fx = Fx("init")
    /\ wifi_scan_at = -1
    /\ wifi_res = NoScan

(* The process, and with it the daemon worker thread, lives until           *)
(* main_loop has left its loop and called sys.exit() (line 489).            *)
Alive == rpc # "exited"

----------------------------------------------------------------------------
(* The render thread: one iteration of main_loop (lines 449-486).           *)
(* Inputs are drawn only where the iteration consumes them.                 *)

AutoInputs(w, t) ==
    IF w.state.screen = "player" /\ track_ended(w.state, w.music, t)
    THEN LoadOutcomes ELSE {"ok"}

ClickInputs(w, events) ==
    IF \/ w.state.screen = "player" /\ player_ops(events) # <<>>
       \/ w.state.screen = "songs" /\ selected_rows(w.state, 0, events) # <<>>
    THEN LoadOutcomes ELSE {"ok"}

ScanInputs(w, t) ==
    IF w.state.screen = "wifi" /\ wifi_scans(w.state, t)
    THEN WifiOutcomes ELSE {NoScan}

(* What the dispatched screen handler leaves behind.                        *)
dispatch(w, events, oa, oc, ws, t) ==
    CASE w.state.screen = "settings"  -> [w EXCEPT !.state = screen_settings(@, events)]
      [] w.state.screen = "wifi"      -> [w EXCEPT !.state = screen_wifi(@, ws, t)]
      [] w.state.screen = "bluetooth" -> w
      [] w.state.screen = "songs"     -> screen_songs(w, events, oc, t)
      [] w.state.screen = "player"    -> screen_player(w, events, oa, oc, t)
      [] OTHER                        -> [w EXCEPT !.state = screen_home(@, events)]

(* Whether the iteration that dispatches on world w at time t enters        *)
(* scan_wifi(), where it waits for the platform command (line 63).          *)
enters_scan(w, t) == w.state.screen = "wifi" /\ wifi_scans(w.state, t)

(* The record of one iteration: w is the world the handler was given, w3    *)
(* the world it left (or, for a scan, the world it waits in).               *)
tick_fx(w, w3, oc, t) ==
    LET scanned == enters_scan(w, t)
    IN [kind   |-> "tick",
        screen |-> w.state.screen,
        auto   |-> w3.log.auto,
        ops    |-> w3.log.ops,
        o      |-> IF w3.log.ops = <<>> THEN "-" ELSE oc,
        scan   |-> IF scanned THEN "begun" ELSE "none",
        gap    |-> IF scanned /\ wifi_scan_at >= 0 THEN t - wifi_scan_at ELSE -1]

(* An iteration runs in one step, except where it waits or reads what the   *)
(* worker writes: on the WiFi screen the step ends inside scan_wifi(), in   *)
(* subprocess.run (line 63), after the reads of lines 313 and 318 and       *)
(* before the writes of lines 320-321; on the Bluetooth screen it ends at   *)
(* the first read of screen_bluetooth.                                      *)
TickOn(batches) ==
    /\ rpc = "loop"
    /\ running
    /\ \E events \in batches :
       \E w1 \in {World(handle_nav(state, events), music)} :
       \E oa \in AutoInputs(w1, now), oc \in ClickInputs(w1, events) :
       \E w3 \in {IF enters_scan(w1, now) THEN w1
                  ELSE dispatch(w1, events, oa, oc, NoScan, now)} :
       \E f \in {tick_fx(w1, w3, oc, now)} :
          /\ state' = w3.state
          /\ music' = w3.music
          /\ running' = ~has_quit(events)
          /\ fx' = f
          /\ wifi_scan_at' = IF f.scan # "none" THEN now ELSE wifi_scan_at
          \* screen_bluetooth reads bt_error first (line 339) ...
          /\ obs' = IF w1.state.screen = "bluetooth"
                    THEN [NoObs EXCEPT !.err_val = state.bt_error,
                                       !.cands = Current]
                    ELSE NoObs
          /\ rpc' = CASE enters_scan(w1, now)          -> "wifi_scan"
                      [] w1.state.screen = "bluetooth" ->
                            IF state.bt_error # None THEN "bt_err" ELSE "bt_list"
                      [] OTHER                         -> "loop"
    /\ UNCHANGED <<now, bt_pc, bt_res, bt_pub, wifi_res>>

Tick == TickOn(EventBatches)

(* scan_wifi() comes back from the platform command (lines 63-105): the     *)
(* outcome is an input; a failure records its message (lines 100-104)       *)
(* before the function returns [].                                          *)
WifiScanReturns ==
    /\ rpc = "wifi_scan"
    /\ \E r \in WifiOutcomes :
          /\ wifi_res' = r
          /\ state' = scan_wifi(state, r).state
    /\ rpc' = "wifi_store"
    /\ fx' = Fx("wifi")
    /\ UNCHANGED <<music, now, running, bt_pc, bt_res, bt_pub, obs, wifi_scan_at>>

(* line 320: the returned list is stored.                                   *)
WifiStoreList ==
    /\ rpc = "wifi_store"
    /\ state' = [state EXCEPT !.wifi_list = scan_wifi(state, wifi_res).ret]
    /\ rpc' = "wifi_clear"
    /\ fx' = Fx("wifi")
    /\ UNCHANGED <<music, now, running, bt_pc, bt_res, bt_pub, obs, wifi_scan_at,
                   wifi_res>>

(* line 321, and the rest of the iteration (lines 324-330, 483-486), which  *)
(* only draws.                                                              *)
WifiClearError ==
    /\ rpc = "wifi_clear"
    /\ state' = [state EXCEPT !.wifi_error = None]
    /\ wifi_res' = NoScan
    /\ rpc' = "loop"
    /\ fx' = [Fx("wifi") EXCEPT !.screen = "wifi",
                                !.scan = IF wifi_res.kind = "ok" THEN "ok" ELSE "fail"]
    /\ UNCHANGED <<music, now, running, bt_pc, bt_res, bt_pub, obs, wifi_scan_at>>

(* The loop is left once an iteration that saw a QUIT event has ended,      *)
(* clock.tick(FPS) included: pygame.quit(); sys.exit() (lines 488-489).     *)
Exit ==
    /\ rpc = "loop"
    /\ ~running
    /\ rpc' = "exited"
    /\ fx' = Fx("exit")
    /\ UNCHANGED <<state, music, now, running, bt_pc, bt_res, bt_pub, obs,
                   wifi_scan_at, wifi_res>>

(* The part of an iteration spent in screen_wifi after the scan began.      *)
WifiVisit == WifiScanReturns \/ WifiStoreList \/ WifiClearError

(* ... reads it again to draw it when it was set (line 340) ...             *)
RenderBtError ==
    /\ rpc = "bt_err"
    /\ obs' = [obs EXCEPT !.err_val = state.bt_error]
    /\ rpc' = "loop"
    /\ fx' = Fx("bt_err")
    /\ UNCHANGED <<state, music, now, running, bt_pc, bt_res, bt_pub,
                   wifi_scan_at, wifi_res>>

(* ... and otherwise reads bt_list: once to test it (line 346) ...          *)
RenderBtList ==
    /\ rpc = "bt_list"
    /\ obs' = [obs EXCEPT !.list_val = state.bt_list,
                           !.torn = Pair(state.bt_list, obs.err_val) \notin obs.cands]
    /\ rpc' = IF state.bt_list # <<>> THEN "bt_items" ELSE "loop"
    /\ fx' = Fx("bt_list")
    /\ UNCHANGED <<state, music, now, running, bt_pc, bt_res, bt_pub,
                   wifi_scan_at, wifi_res>>

(* ... and once more to draw its first six entries (line 347).              *)
RenderBtItems ==
    /\ rpc = "bt_items"
    /\ obs' = [obs EXCEPT !.list_val = state.bt_list,
                           !.torn = Pair(state.bt_list, obs.err_val) \notin obs.cands]
    /\ rpc' = "loop"
    /\ fx' = Fx("bt_items")
    /\ UNCHANGED <<state, music, now, running, bt_pc, bt_res, bt_pub,
                   wifi_scan_at, wifi_res>>

----------------------------------------------------------------------------
(* The Bluetooth worker thread: bt_scan_background (lines 119-128).         *)

BtLists == { <<>>, <<"dev1 (AA:01)">> }

BtOutcomes ==
    { [ok |-> TRUE, devices |-> d] : d \in BtLists }
      \cup { [ok |-> FALSE, devices |-> <<>>] }

(* line 121: one discovery, returning a list or raising.                    *)
BtDiscover ==
    /\ Alive
    /\ bt_pc = "discover"
    /\ \E r \in BtOutcomes :
          /\ bt_res' = r
    /\ bt_pc' = "publish1"
    /\ fx' = Fx("bt")
    /\ UNCHANGED <<state, music, now, running, rpc, bt_pub, obs, wifi_scan_at, wifi_res>>

(* Variant of BtPublishFirst that keeps the devices of earlier cycles.       *)
BtPublishFirst_merges ==
    /\ Alive
    /\ bt_pc = "publish1"
    /\ state' = IF bt_res.ok
                THEN [state EXCEPT !.bt_list =
                         @ \o SelectSeq(bt_res.devices,
                                        LAMBDA dev : \A k \in DOMAIN state.bt_list :
                                                        state.bt_list[k] # dev)]
                ELSE [state EXCEPT !.bt_error = "Bluetooth scan failed"]
    /\ obs' = IF ~InBtRender THEN obs
              ELSE [obs EXCEPT !.cands = @ \cup {Published(bt_res)}]
    /\ bt_pc' = "publish2"
    /\ fx' = Fx("bt")
    /\ UNCHANGED <<music, now, running, rpc, bt_res, bt_pub, wifi_scan_at, wifi_res>>

(* Variant of BtPublishFirst in which a failed discovery ends the thread.   *)
BtPublishFirst_dies_on_failure ==
    /\ Alive
    /\ bt_pc = "publish1"
    /\ state' = IF bt_res.ok
                THEN [state EXCEPT !.bt_list = bt_res.devices]
                ELSE state
    /\ obs' = IF ~InBtRender THEN obs
              ELSE [obs EXCEPT !.cands = @ \cup {Published(bt_res)}]
    /\ bt_pc' = IF bt_res.ok THEN "publish2" ELSE "dead"
    /\ fx' = Fx("bt")
    /\ UNCHANGED <<music, now, running, rpc, bt_res, bt_pub, wifi_scan_at, wifi_res>>

(* line 122 (success) or line 125 (failure).                                *)
BtPublishFirst ==
    /\ Alive
    /\ bt_pc = "publish1"
    /\ state' = IF bt_res.ok
                THEN [state EXCEPT !.bt_list = bt_res.devices]
                ELSE [state EXCEPT !.bt_error = "Bluetooth scan failed"]
    /\ obs' = IF ~InBtRender THEN obs
              ELSE [obs EXCEPT !.cands = @ \cup {Published(bt_res)}]
    /\ bt_pc' = "publish2"
    /\ fx' = Fx("bt")
    /\ UNCHANGED <<music, now, running, rpc, bt_res, bt_pub, wifi_scan_at, wifi_res>>

(* line 123 (success) or line 126 (failure).                                *)
BtPublishSecond ==
    /\ Alive
    /\ bt_pc = "publish2"
    /\ state' = IF bt_res.ok
                THEN [state EXCEPT !.bt_error = None]
                ELSE [state EXCEPT !.bt_list = <<>>]
    /\ bt_pub' = Published(bt_res)
    /\ bt_pc' = "stamp"
    /\ fx' = Fx("bt")
    /\ UNCHANGED <<music, now, running, rpc, bt_res, obs, wifi_scan_at, wifi_res>>

(* Variant of BtStamp that stamps the WiFi channel's field.                 *)
BtStamp_wifi_field ==
    /\ Alive
    /\ bt_pc = "stamp"
    /\ state' = [state EXCEPT !.last_scan_wifi = time_time(now)]
    /\ bt_pc' = "sleep"
    /\ fx' = Fx("bt")
    /\ UNCHANGED <<music, now, running, rpc, bt_res, bt_pub, obs, wifi_scan_at, wifi_res>>

(* line 127 *)
BtStamp ==
    /\ Alive
    /\ bt_pc = "stamp"
    /\ state' = [state EXCEPT !.last_scan_bt = time_time(now)]
    /\ bt_pc' = "sleep"
    /\ fx' = Fx("bt")
    /\ UNCHANGED <<music, now, running, rpc, bt_res, bt_pub, obs, wifi_scan_at, wifi_res>>

(* line 128 *)
BtSleep ==
    /\ Alive
    /\ bt_pc = "sleep"
    /\ bt_pc' = "discover"
    /\ fx' = Fx("bt")
    /\ UNCHANGED <<state, music, now, running, rpc, bt_res, bt_pub, obs, wifi_scan_at, wifi_res>>

----------------------------------------------------------------------------
(* The environment: the clock and the audio engine.                         *)

(* One second passes; music that is playing advances with it.               *)
Advance ==
    /\ Alive
    /\ now < MaxTime
    /\ now' = now + 1
    /\ music' = IF music.mode = "playing" THEN [music EXCEPT !.pos = music.pos + 1]
                ELSE music
    /\ fx' = Fx("env")
    /\ UNCHANGED <<state, running, rpc, bt_pc, bt_res, bt_pub, obs, wifi_scan_at, wifi_res>>

(* The file being played runs out: get_pos() reports -1 from then on.       *)
TrackEnds ==
    /\ Alive
    /\ music.mode = "playing"
    /\ music' = [mode |-> "none", pos |-> 0]
    /\ fx' = Fx("env")
    /\ UNCHANGED <<state, now, running, rpc, bt_pc, bt_res, bt_pub, obs, wifi_scan_at, wifi_res>>

----------------------------------------------------------------------------
(* The playback functions called directly, one call per step.               *)

PlayArgs == {-4, -1, 0, 1, 2, 3, 7}

Called(w, op, o) ==
    /\ Alive
    /\ state' = w.state
    /\ music' = w.music
    /\ fx' = [Fx("call") EXCEPT !.ops = <<op>>, !.o = o]
    /\ UNCHANGED <<now, running, rpc, bt_pc, bt_res, bt_pub, obs, wifi_scan_at, wifi_res>>

CallPlay ==
    \E i \in PlayArgs, o \in LoadOutcomes :
        Called(play_song(World(state, music), i, o, now), "play", o)

CallToggle ==
    \E o \in LoadOutcomes :
        Called(toggle_play_pause(World(state, music), o, now), "toggle", o)

CallNext ==
    \E o \in LoadOutcomes :
        Called(next_song(World(state, music), o, now), "next", o)

CallPrev ==
    \E o \in LoadOutcomes :
        Called(prev_song(World(state, music), o, now), "prev", o)

CallStop == Called(stop_playback(World(state, music)), "stop", "-")

----------------------------------------------------------------------------
(* Specifications *)

(* The whole program: both threads and the environment.                     *)
Next ==
    \/ Tick \/ WifiVisit \/ RenderBtError \/ RenderBtList \/ RenderBtItems
    \/ BtDiscover \/ BtPublishFirst \/ BtPublishSecond \/ BtStamp \/ BtSleep
    \/ Advance \/ TrackEnds \/ Exit

Spec == Init /\ [][Next]_vars

(* The user stays on Home, Songs and Player: the render thread and the     *)
(* environment, with the clicks that lead there.                            *)
PlayerBatches ==
    { <<>>, <<QuitEvent>>,
      <<Click(50, 350)>>, <<Click(164, 350)>>,
      <<Click(190, 110)>>, <<Click(164, 60)>>, <<Click(164, 160)>>,
      <<Click(85, 300)>>, <<Click(164, 300)>>, <<Click(243, 300)>> }

TickPlayer == TickOn(PlayerBatches)

NextPlayer == TickPlayer \/ Advance \/ TrackEnds \/ Exit

SpecPlayer == Init /\ [][NextPlayer]_vars

(* The user stays on Home, Settings, WiFi and Bluetooth, with no worker     *)
(* cycle run: the Bluetooth screen finds no error and an empty list.        *)
WifiBatches ==
    { <<>>, <<QuitEvent>>, <<Click(50, 350)>>, <<Click(80, 110)>>, <<Click(164, 60)>> }

TickWifi == TickOn(WifiBatches)

NextWifi == TickWifi \/ WifiVisit \/ RenderBtList \/ Advance \/ Exit

SpecWifi == Init /\ [][NextWifi]_vars

(* The user stays on Home, Settings, WiFi and Bluetooth, with the worker    *)
(* thread running beside the render thread.                                 *)
BtBatches ==
    { <<>>, <<QuitEvent>>, <<Click(50, 350)>>, <<Click(80, 110)>>, <<Click(164, 60)>> }

TickBt == TickOn(BtBatches)

NextBT ==
    \/ TickBt \/ WifiVisit \/ RenderBtError \/ RenderBtList \/ RenderBtItems
    \/ BtDiscover \/ BtPublishFirst \/ BtPublishSecond \/ BtStamp \/ BtSleep
    \/ Exit

SpecBT == Init /\ [][NextBT]_vars

(* The same with the scheduler's guarantee for the worker thread: a step    *)
(* it can take (a discovery that returns within its timeout, an             *)
(* assignment, a sleep that ends) is eventually taken.                      *)
BtWorker == BtDiscover \/ BtPublishFirst \/ BtPublishSecond \/ BtStamp \/ BtSleep

SpecBTFair == SpecBT /\ WF_vars(BtWorker)

(* Both threads on every screen, at one instant of the clock.               *)
NextThreads ==
    \/ Tick \/ WifiVisit \/ RenderBtError \/ RenderBtList \/ RenderBtItems
    \/ BtWorker \/ Exit

SpecThreads == Init /\ [][NextThreads]_vars

(* The render thread alone on every screen, with short and long             *)
(* catalogues.  No worker cycle has run, so the Bluetooth screen finds no   *)
(* error and an empty list.                                                 *)
NextNav == Tick \/ WifiVisit \/ RenderBtList \/ Exit

SpecNav == InitLong /\ [][NextNav]_vars

(* Both threads and the environment, with a user who walks from Home to     *)
(* each screen once and then only watches.                                  *)
IdleBatches ==
    { <<>>, <<QuitEvent>>,
      <<Click(80, 110)>>, <<Click(190, 110)>>, <<Click(164, 60)>> }

TickIdle == TickOn(IdleBatches)

AdvanceIdle == now < MaxIdleTime /\ Advance

NextIdle ==
    \/ TickIdle \/ WifiVisit \/ RenderBtError \/ RenderBtList \/ RenderBtItems
    \/ BtWorker
    \/ AdvanceIdle \/ TrackEnds \/ Exit

SpecIdle == Init /\ [][NextIdle]_vars

(* The playback controller driven call by call.                             *)
NextCtl ==
    \/ CallPlay \/ CallToggle \/ CallNext \/ CallPrev \/ CallStop
    \/ Advance \/ TrackEnds

SpecCtl == Init /\ [][NextCtl]_vars

(* Everything that touches playback: the direct calls together with the    *)
(* Home, Songs and Player screens.                                          *)
NextPlayback == NextCtl \/ TickPlayer \/ Exit

SpecPlayback == Init /\ [][NextPlayback]_vars

----------------------------------------------------------------------------
(* Claims about the WiFi screen, checked under SpecWifi.                    *)

(* C1: WiFi scan rate limit.  Every execution of scan_wifi() comes more     *)
(* than 6 seconds after the previous execution: two visits of the WiFi      *)
(* screen less than 6 seconds apart run the scan once.                      *)
C1_WifiScanRateLimit == fx.gap = -1 \/ fx.gap > WIFI_RESCAN

(* C2: WiFi failure outcome.  When the scan run by a visit of the WiFi      *)
(* screen failed, the visit leaves wifi_list empty and wifi_error non-null. *)
C2_WifiFailureOutcome ==
    fx.scan = "fail" => state.wifi_list = <<>> /\ state.wifi_error # None

----------------------------------------------------------------------------
(* Claims about the Bluetooth channel, checked under SpecBT.                *)

(* C3: atomic Bluetooth publication.  The (bt_list, bt_error) pair that     *)
(* screen_bluetooth reads within one iteration is a pair that one worker    *)
(* cycle published and that was current while the iteration read: never    *)
(* the list of one cycle with the error of another.                         *)
C3_BtPairAtomic == ~obs.torn

----------------------------------------------------------------------------
(* Claims about the Player screen, checked under SpecPlayer.                *)

PlayerTickDone == fx'.kind = "tick" /\ fx'.screen = "player"

(* elapsedSeconds() exceeds the duration d by more than 0.3 s in state s.   *)
Overrun(s, m, t, d) == 10 * get_playback_position(s, m, t) > 10 * d + 3

(* The playback fields of the dict. *)
Playback(s) ==
    <<s.current_index, s.playing, s.paused, s.song_start_time, s.song_length>>

(* C4: auto-advance never fires while Paused or Stopped.  On every          *)
(* Player-screen tick in which the auto-advance check invokes next(), the   *)
(* playback state at the start of the tick is Playing.                      *)
C4_AutoAdvanceOnlyWhilePlaying ==
    [][PlayerTickDone /\ fx'.auto # "none" => Mode(state) = "Playing"]_vars

(* C5 as stated: auto-advance fires exactly once per finished track.  On a  *)
(* Player-screen tick that starts Playing with elapsedSeconds() more than   *)
(* 0.3 s beyond the duration (0 when unknown), the check invokes next(),    *)
(* and the tick leaves no overrun behind for a later tick to fire on again, *)
(* also when the load of the next track fails.                              *)
C5_AutoAdvanceExactlyOnce ==
    [][PlayerTickDone /\ Mode(state) = "Playing"
         /\ Overrun(state, music, now, player_total(state))
       => /\ fx'.auto # "none"
          /\ ~(Mode(state') = "Playing"
                 /\ Overrun(state', music', now, player_total(state')))]_vars

(* C5 amended: on a Player-screen tick that starts Playing, the check       *)
(* invokes next() exactly when the duration is known (> 0) and              *)
(* elapsedSeconds() exceeds it by more than 0.3 s.  When the next track     *)
(* loads, no overrun is left, so it fired once for that track; when the     *)
(* load fails and no control is clicked, the playback fields are unchanged. *)
C5_AutoAdvanceOncePerLoadedTrack ==
    [][PlayerTickDone /\ Mode(state) = "Playing"
       => /\ fx'.auto # "none"
               <=> /\ player_total(state) > 0
                   /\ Overrun(state, music, now, player_total(state))
          /\ fx'.auto = "loaded"
               => ~Overrun(state', music', now, player_total(state'))
          /\ fx'.auto = "failed" /\ fx'.ops = <<>>
               => Playback(state') = Playback(state)]_vars

(* C5 witness: auto-advance has fired and loaded in a one-song catalog.     *)
C5_Witness ==
    /\ fx.kind = "tick" /\ fx.screen = "player" /\ fx.auto = "loaded"
    /\ Len(state.songs) = 1

(* What C6 promises of the state s2 a tick leaves, s being the state it     *)
(* started in and t its time.                                               *)
AdvancedFrom(s, s2, m2, t) ==
    /\ s2.current_index = (s.current_index + 1) % Len(s.songs)
    /\ Mode(s2) = "Playing"
    /\ s2.song_length = s.songs[s2.current_index + 1].length
    /\ s2.song_start_time = t
    /\ get_playback_position(s2, m2, t) = 0

(* C6 as stated: auto-advance result.  When auto-advance fires at index i   *)
(* of N songs and the next track loads, then after that tick the index is   *)
(* (i+1) mod N, the state is Playing, the cached duration is the new        *)
(* song's, the start reference is now and elapsedSeconds() is 0.            *)
C6_AutoAdvanceResult ==
    [][PlayerTickDone /\ fx'.auto = "loaded"
       => AdvancedFrom(state, state', music', now)]_vars

(* C6 amended: the same, for a tick whose events operate none of the three  *)
(* player controls (they are handled after the auto-advance check).         *)
C6_AutoAdvanceResultNoClick ==
    [][PlayerTickDone /\ fx'.auto = "loaded" /\ fx'.ops = <<>>
       => AdvancedFrom(state, state', music', now)]_vars

(* C6 witness: auto-advance has wrapped from the last song to the first.    *)
C6_Witness ==
    /\ fx.kind = "tick" /\ fx.screen = "player"
    /\ fx.auto = "loaded" /\ fx.ops = <<>>
    /\ Len(state.songs) >= 2 /\ state.current_index = 0

----------------------------------------------------------------------------
(* Claims about the playback functions, checked under SpecCtl.              *)

RECURSIVE NextTimes(_, _, _)
NextTimes(w, n, t) ==
    IF n = 0 THEN w ELSE NextTimes(next_song(w, "ok", t), n - 1, t)

(* C7: index arithmetic is modulo N in both directions.  In every state     *)
(* with N >= 1 songs and index i, and loads succeeding: next() sets the     *)
(* index to (i+1) mod N, previous() to (i-1) mod N (N-1 from index 0), N    *)
(* next() calls in a row return to i, and next() then previous() returns    *)
(* to i.                                                                    *)
C7_IndexModulo ==
    LET w == World(state, music)
        N == Len(state.songs)
        i == state.current_index
        n == next_song(w, "ok", now)
        p == prev_song(w, "ok", now)
    IN N >= 1 =>
         /\ 0 <= i /\ i < N
         /\ n.state.current_index = (IF i + 1 = N THEN 0 ELSE i + 1)
         /\ p.state.current_index = (IF i = 0 THEN N - 1 ELSE i - 1)
         /\ NextTimes(w, N, now).state.current_index = i
         /\ prev_song(n, "ok", now).state.current_index = i

(* C7 witness: previous() has been called at index 0 of three songs and     *)
(* left the index at 2.                                                     *)
C7_Witness ==
    /\ fx.kind = "call" /\ fx.ops = <<"prev">> /\ fx.o = "ok"
    /\ Len(state.songs) = 3 /\ state.current_index = 2

(* C8: empty-catalogue no-ops.  In every state with an empty catalogue,     *)
(* next(), previous(), play(i) for any i and toggle() leave playing,        *)
(* paused, the current index, the start reference and the cached duration   *)
(* as they were, whatever the audio engine would answer.                    *)
C8_EmptyCatalogNoOps ==
    LET w == World(state, music)
    IN Len(state.songs) = 0 =>
         \A o \in LoadOutcomes :
            /\ Playback(next_song(w, o, now).state) = Playback(state)
            /\ Playback(prev_song(w, o, now).state) = Playback(state)
            /\ Playback(toggle_play_pause(w, o, now).state) = Playback(state)
            /\ \A i \in PlayArgs :
                  Playback(play_song(w, i, o, now).state) = Playback(state)

(* C8 witness: toggle() has been called with an empty catalogue.            *)
C8_Witness ==
    /\ Len(state.songs) = 0
    /\ fx.kind = "call" /\ fx.ops = <<"toggle">>

(* C9: the toggle() state machine.  With a non-empty catalogue and a        *)
(* successful load, toggle() takes Stopped to Playing by playing the        *)
(* current index, Playing to Paused and Paused to Playing, and never        *)
(* changes the current index.                                               *)
C9_ToggleStateMachine ==
    LET r == toggle_play_pause(World(state, music), "ok", now).state
    IN Len(state.songs) > 0 =>
         /\ r.current_index = state.current_index
         /\ Mode(state) = "Stopped"
               => /\ Mode(r) = "Playing"
                  /\ r.song_start_time = now
                  /\ r.song_length = state.songs[state.current_index + 1].length
         /\ Mode(state) = "Playing" => Mode(r) = "Paused"
         /\ Mode(state) = "Paused" => Mode(r) = "Playing"

(* C9 witness: toggle() has paused a playing song.                          *)
C9_Witness ==
    /\ fx.kind = "call" /\ fx.ops = <<"toggle">> /\ fx.o = "ok"
    /\ Mode(state) = "Paused"

(* elapsedSeconds() in world w at time t. *)
Elapsed(w, t) == get_playback_position(w.state, w.music, t)

(* World w after d more seconds: music that is playing advances.            *)
Elapse(w, d) ==
    [w EXCEPT !.music = IF @.mode = "playing" THEN [@ EXCEPT !.pos = @ + d] ELSE @]

(* C10: pause and resume preserve elapsed time.  In every Playing state,    *)
(* elapsedSeconds() right after toggle() pauses is within 50 ms of its      *)
(* value right before, and right after a resuming toggle(), however long    *)
(* the pause, within 50 ms of its value when pausing; on the native path    *)
(* and on the fallback path.                                                *)
C10_PauseResumeKeepElapsed ==
    LET w  == World(state, music)
        p0 == Elapsed(w, now)
        w1 == toggle_play_pause(w, "ok", now)
    IN Len(state.songs) > 0 /\ Mode(state) = "Playing" =>
         /\ 20 * Abs(Elapsed(w1, now) - p0) < 1
         /\ \A d \in 0..MaxPause :
               20 * Abs(Elapsed(toggle_play_pause(Elapse(w1, d), "ok", now + d),
                                now + d) - p0) < 1

(* C11: a failing play(index) leaves the playback state unchanged.  In      *)
(* every state, for every index and for a failure of load() or of play(),   *)
(* play_song returns normally with current index, playing, paused, start    *)
(* reference and cached duration as they were.                              *)
C11_PlayFailureKeepsState ==
    \A i \in PlayArgs, o \in LoadOutcomes \ {"ok"} :
        Playback(play_song(World(state, music), i, o, now).state) = Playback(state)

(* C11 witness: play() has failed while a song was paused, and the state    *)
(* is still Paused.                                                         *)
C11_Witness ==
    /\ fx.kind = "call" /\ fx.ops = <<"play">> /\ fx.o = "play_fail"
    /\ Mode(state) = "Paused" /\ Len(state.songs) = 3

----------------------------------------------------------------------------
(* Claims about playback as a whole, checked under SpecPlayback.            *)

(* C12: index validity.  In every reachable state with a non-empty          *)
(* catalogue of N songs, 0 <= current_index < N; and play(i) leaves it so   *)
(* for every integer i, negative or beyond N.                               *)
C12_IndexValid ==
    LET N == Len(state.songs)
    IN N > 0 =>
         /\ 0 <= state.current_index /\ state.current_index < N
         /\ \A i \in PlayArgs :
               play_song(World(state, music), i, "ok", now).state.current_index
                   \in 0 .. (N - 1)

(* C12 witness: play(i) has been called and left the last index of three.   *)
C12_Witness ==
    /\ fx.kind = "call" /\ fx.ops = <<"play">> /\ fx.o = "ok"
    /\ Len(state.songs) = 3 /\ state.current_index = 2

----------------------------------------------------------------------------
(* Claims about the Bluetooth worker, checked under SpecBTFair and SpecBT.  *)

(* C13: Bluetooth worker progress.  Under fair scheduling of the worker,    *)
(* for as long as the process lives, the worker again and again finishes a  *)
(* cycle (it has stamped last_scan_bt and idles) and again and again        *)
(* starts the next one, whatever screen is shown and whether scans succeed  *)
(* or fail.                                                                 *)
C13_BtWorkerProgress ==
    /\ []<>(~Alive \/ bt_pc = "sleep")
    /\ []<>(~Alive \/ bt_pc = "discover")

(* C13 witness: a cycle whose scan failed has completed while the UI is on  *)
(* the Settings screen.                                                     *)
C13_Witness ==
    /\ bt_pc = "sleep" /\ ~bt_res.ok /\ state.bt_error # None
    /\ state.last_scan_bt # 0 /\ state.screen = "settings" /\ running

(* C14: Bluetooth cycle outcome.  Once a cycle has made both of its writes  *)
(* (the worker stamps the time or idles), either its scan succeeded and     *)
(* bt_list is exactly the devices it found with bt_error null, or it        *)
(* failed and bt_error is non-null with bt_list empty.                      *)
C14_BtCycleOutcome ==
    bt_pc \in {"stamp", "sleep"} =>
        IF bt_res.ok
        THEN state.bt_list = bt_res.devices /\ state.bt_error = None
        ELSE state.bt_list = <<>> /\ state.bt_error # None

(* C14 witness: the worker idles after a successful scan that found no      *)
(* device, and the list is empty.                                           *)
C14_Witness ==
    /\ bt_pc = "sleep" /\ bt_res.ok /\ bt_res.devices = <<>>
    /\ state.bt_list = <<>> /\ state.bt_error = None /\ state.last_scan_bt # 0

----------------------------------------------------------------------------
(* Claims about the two threads together, checked under SpecThreads.        *)

(* The Bluetooth channel of the dict, and the dict without it.              *)
BtFields(s) == <<s.bt_list, s.bt_error, s.last_scan_bt>>

OtherFields(s) == [s EXCEPT !.bt_list = <<>>, !.bt_error = None, !.last_scan_bt = 0]

(* C15: single-writer discipline.  A step of the Bluetooth worker changes   *)
(* no field but bt_list, bt_error and last_scan_bt; a step of the render    *)
(* thread changes none of these three.                                      *)
C15_SingleWriter ==
    [][/\ fx'.kind = "bt" => OtherFields(state') = OtherFields(state)
       /\ fx'.kind # "bt" => BtFields(state') = BtFields(state)]_vars

(* C15 witness: the worker has just stepped, a device list is published,    *)
(* and the render thread has meanwhile moved to the Player with a song      *)
(* playing.                                                                 *)
C15_Witness ==
    /\ fx.kind = "bt" /\ state.bt_list # <<>> /\ state.last_scan_bt # 0
    /\ state.screen = "player" /\ state.playing

----------------------------------------------------------------------------
(* Claims about navigation, checked under SpecNav.                          *)

(* The clicks inside the bottom navigation band, and the screen each        *)
(* selects.                                                                 *)
NavClicks == { p \in ClickPoints : p[2] > HEIGHT - NAV_H }

NavTarget(p) ==
    IF 3 * p[1] < WIDTH THEN "home"
    ELSE IF 3 * p[1] < 2 * WIDTH THEN "songs" ELSE "settings"

(* One iteration of main_loop whose only event is a click at p.             *)
AfterClick(p, o) ==
    dispatch(World(handle_nav(state, <<Click(p[1], p[2])>>), music),
             <<Click(p[1], p[2])>>, "ok", o, NoScan, now)

(* C16: bottom navigation jump.  In every state of the loop and for every   *)
(* catalogue size, an iteration whose event is a click inside the           *)
(* navigation band ends on the screen the click selects and calls no        *)
(* playback function: the click selects no song.                            *)
C16_NavJump ==
    rpc = "loop" =>
        \A p \in NavClicks, o \in LoadOutcomes :
            /\ AfterClick(p, o).state.screen = NavTarget(p)
            /\ AfterClick(p, o).log.ops = <<>>

(* C17: song selection couples navigation and playback.  Every step that    *)
(* changes the screen to Player is an iteration that ran screen_songs and   *)
(* called play_song for a clicked row; when the load succeeded, the step    *)
(* is the effect of a click on some row i, the current index is i and the   *)
(* state is Playing.                                                        *)
C17_SelectionPlays ==
    [][state.screen # "player" /\ state'.screen = "player"
       => /\ fx'.kind = "tick" /\ fx'.screen = "songs"
          /\ fx'.ops = <<"select">>
          /\ fx'.o = "ok"
               => /\ Mode(state') = "Playing"
                  /\ \E p \in ClickPoints, i \in 0 .. (Len(state.songs) - 1) :
                        /\ collidepoint(draw_list_item(LIST_TOP + i * LIST_STEP), p)
                        /\ AfterClick(p, "ok").state = state'
                        /\ state'.current_index = i]_vars

(* C17 witness: the third row of the song list has been clicked and the     *)
(* Player shows the third song playing.                                     *)
C17_Witness ==
    /\ fx.kind = "tick" /\ fx.screen = "songs" /\ fx.ops = <<"select">>
    /\ fx.o = "ok" /\ state.screen = "player"
    /\ state.current_index = 2 /\ Mode(state) = "Playing"

----------------------------------------------------------------------------
(* Claims about the screen field, checked under SpecIdle.                   *)

(* The event batches that carry no click. *)
NoClickBatches == { <<>>, <<QuitEvent>> }

(* One iteration of main_loop on events ev, with outcome oa of the load in  *)
(* auto-advance and outcome ws of the WiFi scan.                            *)
AfterTick(ev, oa, ws) ==
    dispatch(World(handle_nav(state, ev), music), ev, oa, "ok", ws, now)

(* C18: screen changes are input-driven only.  The initial screen is Home;  *)
(* an iteration of the loop whose events carry no click leaves the screen   *)
(* as it was, whatever auto-advance and the WiFi scan do in it; and no      *)
(* step other than an iteration of the loop (the Bluetooth worker, the      *)
(* clock, the audio engine) changes the screen.                             *)
C18_ScreenInputDriven ==
    [][/\ fx.kind = "init" => state.screen = "home"
       /\ rpc = "loop" /\ running
            => \A ev \in NoClickBatches :
                  \A oa \in AutoInputs(World(state, music), now),
                     ws \in ScanInputs(World(state, music), now) :
                     AfterTick(ev, oa, ws).state.screen = state.screen
       /\ fx'.kind # "tick" => state'.screen = state.screen]_vars

(* C18 witness: auto-advance has fired in an iteration without a control    *)
(* click, after a Bluetooth cycle completed, and the screen is still the    *)
(* Player.                                                                  *)
C18_Witness ==
    /\ fx.kind = "tick" /\ fx.auto # "none" /\ fx.ops = <<>>
    /\ state.screen = "player" /\ state.last_scan_bt # 0

----------------------------------------------------------------------------
(* Further claims about the playback functions, checked under SpecCtl.      *)

(* Every answer pygame.mixer.music.get_pos() can give at this time.         *)
EngineAnswers ==
    { [mode |-> "none", pos |-> 0] }
      \cup { [mode |-> md, pos |-> k] : md \in {"playing", "paused"}, k \in 0 .. now }

(* C19: elapsedSeconds() is never negative.  In every reachable state the   *)
(* start reference is at most the current monotonic time, and for every     *)
(* answer of the native position query get_playback_position() is >= 0;     *)
(* when the answer is unknown it is now - start reference if Playing and 0  *)
(* if Paused or Stopped.                                                    *)
C19_ElapsedNonNegative ==
    /\ state.song_start_time <= now
    /\ \A m \in EngineAnswers : get_playback_position(state, m, now) >= 0
    /\ get_playback_position(state, [mode |-> "none", pos |-> 0], now)
          = (IF Mode(state) = "Playing" THEN now - state.song_start_time ELSE 0)

(* C19 witness: a song started late has been paused and resumed on the      *)
(* fallback path, and time has passed since its start reference.            *)
C19_Witness ==
    /\ fx.kind = "call" /\ fx.ops = <<"toggle">> /\ Mode(state) = "Playing"
    /\ music.mode = "none"
    /\ state.song_start_time > 0 /\ now > state.song_start_time

----------------------------------------------------------------------------
(* A further claim about playback as a whole, checked under SpecPlayback.   *)

(* C20: playback flag invariant.  In every reachable state paused implies   *)
(* playing: (playing, paused) is one of Stopped (false, false), Playing     *)
(* (true, false) and Paused (true, true), never (false, true).              *)
C20_PausedImpliesPlaying ==
    /\ state.paused => state.playing
    /\ <<state.playing, state.paused>>
          \in { <<FALSE, FALSE>>, <<TRUE, FALSE>>, <<TRUE, TRUE>> }

(* C20 witness: stop_playback has been called on a player that had a song   *)
(* loaded, and both flags are clear.                                        *)
C20_Witness ==
    /\ fx.kind = "call" /\ fx.ops = <<"stop">>
    /\ ~state.playing /\ ~state.paused /\ state.song_length > 0

====
